---- MODULE Spec2Model ----
(***************************************************************************)
(* Model of resources/jupyter/bridge.py: the Jupyter kernel bridge.        *)
(*                                                                         *)
(* Two threads: "main" runs main() (startup, the stdin dispatch loop and   *)
(* the teardown in the finally block); "relay" runs iopub_listener().      *)
(* Both write to stdout through emit(), which serialises under _emit_lock. *)
(* The kernel is the environment: it accepts requests, the client assigns  *)
(* message ids, and kc.get_iopub_msg hands the relay the kernel's events.  *)
(*                                                                         *)
(* print(text, flush=True) writes the text and the line end as two writes  *)
(* to the stream, so stdout is modelled as a sequence of chunks.           *)
(***************************************************************************)
EXTENDS Integers, Sequences, FiniteSets, TLC

\* ---------------------------------------------------------------- bounds
MaxLines == 2        \* inbound lines read by the dispatcher in one run
MaxEvents == 2       \* events the relay takes from IOPub in one run
MaxInputs == 3       \* lines read plus events taken in one run

\* ------------------------------------------------------------- constants
None == "None"       \* Python's None (JSON null)
NoParent == 0        \* an absent / empty parent_header msg_id (falsy)

Threads == {"main", "relay"}
ReqIds == {"r1", None}

VARIABLES
    pc,          \* [Threads -> position in the code]
    pending,     \* [Threads -> the object passed to emit()]
    ret,         \* where main continues after its emit() returns
    emit_lock,   \* holder of _emit_lock, or "free"
    map_lock,    \* holder of _msg_map_lock, or "free"
    msg_map,     \* _msg_map: kernel msg_id -> request id
    stop_event,  \* stop_event.is_set()
    stdout,      \* the outbound stream, a sequence of chunks
    exit_status, \* process exit status once pc["main"] = "stopped"
    req,         \* the dispatcher's current request (req_id, action)
    msg,         \* the relay's current IOPub message
    req_id,      \* the relay's local req_id
    nmsg,        \* number of message ids the kernel client has handed out
    submitted,   \* msg_id -> request id of the execute request that got it
    nread,       \* number of inbound lines read so far
    nevents,     \* number of events the relay has taken so far
    taken,       \* msg_type and content of the events taken that the
                 \* relay answers, in take order
    loop_exit,   \* how the dispatcher loop ended ("" while it has not)
    uncaught,    \* an exception is propagating out of main()
    dcount,      \* responses main has written since it read the current line
    rcount,      \* responses the relay has written for its current message
    outcome,     \* result of the last synchronous kernel command
    channels     \* kc's channels are running

vars == <<pc, pending, ret, emit_lock, map_lock, msg_map, stop_event, stdout,
          exit_status, req, msg, req_id, nmsg, submitted, nread,
          nevents, taken, loop_exit, uncaught, dcount, rcount, outcome,
          channels>>

\* ------------------------------------------------------------ data model
\* A JSON value of a mime bundle: a string, or a list of items; an item is
\* a string fragment or a number.
Str(s) == [tag |-> "str", s |-> s, items |-> <<>>]
Num(s) == [tag |-> "num", s |-> s, items |-> <<>>]
List(xs) == [tag |-> "list", s |-> "", items |-> xs]
NoData == [tag |-> "none", s |-> "", items |-> <<>>]

\* The payloads the kernel publishes in execute_result / display_data.
Payloads == { Str("abc"),
              List(<<Str("a"), Str("b"), Str("c")>>),
              List(<<Num("1"), Num("2")>>) }

\* "".join(v): defined when every item is a str, else TypeError.
Joinable(v) == \A i \in 1..Len(v.items) : v.items[i].tag = "str"

RECURSIVE Join(_)
Join(xs) == IF xs = <<>> THEN "" ELSE Head(xs).s \o Join(Tail(xs))

\* A flattening that passes every value through as it came.
FlattenKeepsList(v) == v

\* flat_data[k] = "".join(v) if isinstance(v, list) else v
Flatten(v) == IF v.tag = "list" THEN Str(Join(v.items)) ELSE v

\* isinstance(v, list) and "".join(v) raises TypeError
FlattenRaises(v) == v.tag = "list" /\ ~Joinable(v)

Response(id, type, info, data) ==
    [id |-> id, type |-> type, info |-> info, data |-> data]
NoResponse == Response(None, "", "", NoData)

Event(kind, state, parent, data) ==
    [kind |-> kind, state |-> state, parent |-> parent, data |-> data]
NoEvent == Event("", "", NoParent, NoData)

Request(id, action) == [id |-> id, action |-> action]
NoRequest == Request(None, "")

\* The events the kernel can publish, for the parent keys it knows.
EventsFor(parents) ==
    { Event(k, "", p, NoData) : k \in {"stream", "error", "execute_input"},
                                p \in parents }
    \cup { Event(k, "", p, d) : k \in {"execute_result", "display_data"},
                                p \in parents, d \in Payloads }
    \cup { Event("status", s, p, NoData) : s \in {"busy", "idle", "starting"},
                                           p \in parents }

\* The inbound lines: blank, not JSON, JSON that is not an object, and
\* objects with each action (or none) and each id (or none).
Lines ==
    { [shape |-> s, id |-> None, action |-> ""] :
          s \in {"blank", "notjson", "array", "number", "string", "null"} }
    \cup { [shape |-> "object", id |-> i, action |-> a] :
          i \in ReqIds,
          a \in {"execute", "interrupt", "restart", "shutdown", None, "bogus"} }

\* ------------------------------------------------------------------ Init
Init ==
    /\ pc = [t \in Threads |-> IF t = "main" THEN "import_jupyter_client"
                                             ELSE "unstarted"]
    /\ pending = [t \in Threads |-> NoResponse]
    /\ ret = ""
    /\ emit_lock = "free"
    /\ map_lock = "free"
    /\ msg_map = <<>>
    /\ stop_event = FALSE
    /\ stdout = <<>>
    /\ exit_status = -1
    /\ req = NoRequest
    /\ msg = NoEvent
    /\ req_id = None
    /\ nmsg = 0
    /\ submitted = <<>>
    /\ nread = 0
    /\ nevents = 0
    /\ taken = <<>>
    /\ loop_exit = ""
    /\ uncaught = FALSE
    /\ dcount = 0
    /\ rcount = 0
    /\ outcome = ""
    /\ channels = FALSE

\* ------------------------------------------------------------- emit()
Chunk(t, obj, part) == [w |-> t, obj |-> obj, part |-> part]

\* A call emit(obj) by thread t; main continues at cont when it returns.
CallEmit(t, obj, cont) ==
    /\ pc' = [pc EXCEPT ![t] = "emit"]
    /\ pending' = [pending EXCEPT ![t] = obj]
    /\ ret' = IF t = "main" THEN cont ELSE ret

\* The process is alive: once main() has returned or exited, the daemon
\* relay thread is gone with it.
Running == pc["main"] # "stopped"

\* An emit() that does not wait for _emit_lock.
EmitAcquireUnlocked(t) ==
    /\ Running
    /\ pc[t] = "emit"
    /\ emit_lock' = t
    /\ pc' = [pc EXCEPT ![t] = "emit_print"]
    /\ UNCHANGED <<pending, ret, map_lock, msg_map, stop_event, stdout,
                   exit_status, req, msg, req_id, nmsg, submitted,
                   nread, nevents, taken, loop_exit, uncaught, dcount, rcount,
                   outcome, channels>>

\* An emit() that gives up when _emit_lock is busy instead of waiting: the
\* line is not written.
EmitAcquireNonBlocking(t) ==
    /\ Running
    /\ pc[t] = "emit"
    /\ IF emit_lock = "free"
       THEN /\ emit_lock' = t
            /\ pc' = [pc EXCEPT ![t] = "emit_print"]
       ELSE /\ pc' = [pc EXCEPT ![t] = IF t = "main" THEN ret ELSE "check"]
            /\ UNCHANGED emit_lock
    /\ UNCHANGED <<pending, ret, map_lock, msg_map, stop_event, stdout,
                   exit_status, req, msg, req_id, nmsg, submitted,
                   nread, nevents, taken, loop_exit, uncaught, dcount,
                   rcount, outcome, channels>>

\* with _emit_lock: (acquire, blocking while another thread holds it)
EmitAcquire(t) ==
    /\ Running
    /\ pc[t] = "emit"
    /\ emit_lock = "free"
    /\ emit_lock' = t
    /\ pc' = [pc EXCEPT ![t] = "emit_print"]
    /\ UNCHANGED <<pending, ret, map_lock, msg_map, stop_event, stdout,
                   exit_status, req, msg, req_id, nmsg, submitted,
                   nread, nevents, taken, loop_exit, uncaught, dcount, rcount,
                   outcome, channels>>

\* print(json.dumps(obj), ...): the text of the line is written
EmitPrint(t) ==
    /\ Running
    /\ pc[t] = "emit_print"
    /\ stdout' = Append(stdout, Chunk(t, pending[t], "text"))
    /\ pc' = [pc EXCEPT ![t] = "emit_end"]
    /\ UNCHANGED <<pending, ret, emit_lock, map_lock, msg_map, stop_event,
                   exit_status, req, msg, req_id, nmsg, submitted,
                   nread, nevents, taken, loop_exit, uncaught, dcount, rcount,
                   outcome, channels>>

\* print(..., flush=True): the line end is written and the stream flushed
EmitEnd(t) ==
    /\ Running
    /\ pc[t] = "emit_end"
    /\ stdout' = Append(stdout, Chunk(t, pending[t], "nl"))
    /\ pc' = [pc EXCEPT ![t] = "emit_release"]
    /\ dcount' = IF t = "main" THEN dcount + 1 ELSE dcount
    /\ rcount' = IF t = "relay" THEN rcount + 1 ELSE rcount
    /\ UNCHANGED <<pending, ret, emit_lock, map_lock, msg_map, stop_event,
                   exit_status, req, msg, req_id, nmsg, submitted,
                   nread, nevents, taken, loop_exit, uncaught, outcome,
                   channels>>

\* leaving the with block releases _emit_lock; emit() returns
EmitRelease(t) ==
    /\ Running
    /\ pc[t] = "emit_release"
    /\ emit_lock' = "free"
    /\ pc' = [pc EXCEPT ![t] = IF t = "main" THEN ret ELSE "check"]
    /\ UNCHANGED <<pending, ret, map_lock, msg_map, stop_event, stdout,
                   exit_status, req, msg, req_id, nmsg, submitted,
                   nread, nevents, taken, loop_exit, uncaught, dcount, rcount,
                   outcome, channels>>

Emit(t) ==
    \/ EmitAcquire(t)
    \/ EmitPrint(t)
    \/ EmitEnd(t)
    \/ EmitRelease(t)

\* ------------------------------------------------------------- startup
StartupError(ename) == Response(None, "error", ename, NoData)

\* from jupyter_client import KernelManager
ImportJupyterClient ==
    /\ pc["main"] = "import_jupyter_client"
    /\ \/ /\ pc' = [pc EXCEPT !["main"] = "import_ipykernel"]
          /\ UNCHANGED <<pending, ret>>
       \/ CallEmit("main", StartupError("ImportError"), "sys_exit")
    /\ UNCHANGED <<emit_lock, map_lock, msg_map, stop_event, stdout,
                   exit_status, req, msg, req_id, nmsg, submitted,
                   nread, nevents, taken, loop_exit, uncaught, dcount, rcount,
                   outcome, channels>>

\* import ipykernel
ImportIpykernel ==
    /\ pc["main"] = "import_ipykernel"
    /\ \/ /\ pc' = [pc EXCEPT !["main"] = "start_kernel"]
          /\ UNCHANGED <<pending, ret>>
       \/ CallEmit("main", StartupError("ImportError"), "sys_exit")
    /\ UNCHANGED <<emit_lock, map_lock, msg_map, stop_event, stdout,
                   exit_status, req, msg, req_id, nmsg, submitted,
                   nread, nevents, taken, loop_exit, uncaught, dcount, rcount,
                   outcome, channels>>

\* km = KernelManager(...); km.start_kernel()
StartKernel ==
    /\ pc["main"] = "start_kernel"
    /\ \/ /\ pc' = [pc EXCEPT !["main"] = "start_channels"]
          /\ UNCHANGED <<pending, ret>>
       \/ CallEmit("main", StartupError("OSError"), "sys_exit")
    /\ UNCHANGED <<emit_lock, map_lock, msg_map, stop_event, stdout,
                   exit_status, req, msg, req_id, nmsg, submitted,
                   nread, nevents, taken, loop_exit, uncaught, dcount, rcount,
                   outcome, channels>>

\* kc = km.client(); kc.start_channels()   (outside any try block: an
\* exception here propagates out of main(), exit status 1)
StartChannels ==
    /\ pc["main"] = "start_channels"
    /\ \/ /\ pc' = [pc EXCEPT !["main"] = "wait_for_ready"]
          /\ channels' = TRUE
          /\ UNCHANGED <<uncaught, exit_status>>
       \/ /\ pc' = [pc EXCEPT !["main"] = "stopped"]
          /\ uncaught' = TRUE
          /\ exit_status' = 1
          /\ UNCHANGED channels
    /\ UNCHANGED <<pending, ret, emit_lock, map_lock, msg_map, stop_event,
                   stdout, req, msg, req_id, nmsg, submitted, nread,
                   nevents, taken, loop_exit, dcount, rcount, outcome>>

\* kc.wait_for_ready(timeout=30), RuntimeError -> KernelTimeout
WaitForReady ==
    /\ pc["main"] = "wait_for_ready"
    /\ \/ /\ pc' = [pc EXCEPT !["main"] = "kernel_info"]
          /\ UNCHANGED <<pending, ret>>
       \/ CallEmit("main", StartupError("KernelTimeout"), "timeout_shutdown")
    /\ UNCHANGED <<emit_lock, map_lock, msg_map, stop_event, stdout,
                   exit_status, req, msg, req_id, nmsg, submitted,
                   nread, nevents, taken, loop_exit, uncaught, dcount, rcount,
                   outcome, channels>>

\* km.shutdown_kernel(now=True); sys.exit(1)  (exit status 1 also when the
\* kernel shutdown raises)
TimeoutShutdown ==
    /\ pc["main"] = "timeout_shutdown"
    /\ pc' = [pc EXCEPT !["main"] = "stopped"]
    /\ exit_status' = 1
    /\ UNCHANGED <<pending, ret, emit_lock, map_lock, msg_map, stop_event,
                   stdout, req, msg, req_id, nmsg, submitted, nread,
                   nevents, taken, loop_exit, uncaught, dcount, rcount,
                   outcome, channels>>

\* sys.exit(1)
SysExit ==
    /\ pc["main"] = "sys_exit"
    /\ pc' = [pc EXCEPT !["main"] = "stopped"]
    /\ exit_status' = 1
    /\ UNCHANGED <<pending, ret, emit_lock, map_lock, msg_map, stop_event,
                   stdout, req, msg, req_id, nmsg, submitted, nread,
                   nevents, taken, loop_exit, uncaught, dcount, rcount,
                   outcome, channels>>

\* info = kc.kernel_info(): a request with a message id of its own, which
\* is never registered in _msg_map
KernelInfo ==
    /\ pc["main"] = "kernel_info"
    /\ nmsg' = nmsg + 1
    /\ pc' = [pc EXCEPT !["main"] = "get_shell_msg"]
    /\ UNCHANGED <<pending, ret, emit_lock, map_lock, msg_map, stop_event,
                   stdout, exit_status, req, msg, req_id, submitted,
                   nread, nevents, taken, loop_exit, uncaught, dcount, rcount,
                   outcome, channels>>

\* A startup that starts the relay thread before it announces readiness.
GetShellMsgThreadFirst ==
    /\ pc["main"] = "get_shell_msg"
    /\ pc' = [pc EXCEPT !["main"] = "emit", !["relay"] = "check"]
    /\ pending' = [pending EXCEPT
                      !["main"] = Response(None, "ready", "python", NoData)]
    /\ ret' = "loop"
    /\ UNCHANGED <<emit_lock, map_lock, msg_map, stop_event, stdout,
                   exit_status, req, msg, req_id, nmsg, submitted,
                   nread, nevents, taken, loop_exit, uncaught, dcount, rcount,
                   outcome, channels>>

\* reply = kc.get_shell_msg(timeout=10) (failure swallowed, default
\* language); emit({"type": "ready", "language": language})
GetShellMsg ==
    /\ pc["main"] = "get_shell_msg"
    /\ CallEmit("main", Response(None, "ready", "python", NoData),
                "start_thread")
    /\ UNCHANGED <<emit_lock, map_lock, msg_map, stop_event, stdout,
                   exit_status, req, msg, req_id, nmsg, submitted,
                   nread, nevents, taken, loop_exit, uncaught, dcount, rcount,
                   outcome, channels>>

\* stop_event = threading.Event(); iopub_thread.start()
StartThread ==
    /\ pc["main"] = "start_thread"
    /\ stop_event' = FALSE
    /\ pc' = [pc EXCEPT !["main"] = "loop", !["relay"] = "check"]
    /\ UNCHANGED <<pending, ret, emit_lock, map_lock, msg_map, stdout,
                   exit_status, req, msg, req_id, nmsg, submitted,
                   nread, nevents, taken, loop_exit, uncaught, dcount, rcount,
                   outcome, channels>>

Startup ==
    \/ ImportJupyterClient
    \/ ImportIpykernel
    \/ StartKernel
    \/ StartChannels
    \/ WaitForReady
    \/ TimeoutShutdown
    \/ SysExit
    \/ KernelInfo
    \/ GetShellMsg
    \/ StartThread

\* ------------------------------------------------- Correlation Table
\* _msg_map[msg_id] = req_id
MapPut(map, k, v) ==
    [x \in DOMAIN map \cup {k} |-> IF x = k THEN v ELSE map[x]]

\* _msg_map.get(parent_id)
MapGet(map, k) == IF k \in DOMAIN map THEN map[k] ELSE None

\* -------------------------------------------------- Command Dispatcher
\* A dispatcher with `continue` in place of `break`: a shutdown request is
\* parsed and then passed over like an unrecognized action.
DispatchShutdownIgnored(line) ==
    IF line.shape \in {"blank", "notjson"}
    THEN UNCHANGED <<pc, req, loop_exit, uncaught>>
    ELSE IF line.shape # "object"
    THEN /\ uncaught' = TRUE
         /\ loop_exit' = "exception"
         /\ pc' = [pc EXCEPT !["main"] = "finally"]
         /\ UNCHANGED req
    ELSE IF line.action \in {"execute", "interrupt", "restart"}
    THEN /\ req' = Request(line.id, line.action)
         /\ pc' = [pc EXCEPT !["main"] = line.action]
         /\ UNCHANGED <<loop_exit, uncaught>>
    ELSE IF line.action = "shutdown"
    THEN /\ req' = Request(line.id, line.action)
         /\ UNCHANGED <<pc, loop_exit, uncaught>>
    ELSE UNCHANGED <<pc, req, loop_exit, uncaught>>

\* The body of the for loop for one line, up to the dispatch on action:
\* strip, skip blank, json.loads, req.get("id"), req.get("action") and the
\* if/elif chain.
Dispatch(line) ==
    IF line.shape \in {"blank", "notjson"}
    THEN \* continue
         UNCHANGED <<pc, req, loop_exit, uncaught>>
    ELSE IF line.shape # "object"
    THEN \* req.get raises AttributeError, which
         \* except (EOFError, KeyboardInterrupt) does not catch
         /\ uncaught' = TRUE
         /\ loop_exit' = "exception"
         /\ pc' = [pc EXCEPT !["main"] = "finally"]
         /\ UNCHANGED req
    ELSE IF line.action \in {"execute", "interrupt", "restart"}
    THEN /\ req' = Request(line.id, line.action)
         /\ pc' = [pc EXCEPT !["main"] = line.action]
         /\ UNCHANGED <<loop_exit, uncaught>>
    ELSE IF line.action = "shutdown"
    THEN \* break
         /\ req' = Request(line.id, line.action)
         /\ pc' = [pc EXCEPT !["main"] = "finally"]
         /\ loop_exit' = "shutdown"
         /\ UNCHANGED uncaught
    ELSE \* no branch of the if/elif chain matches
         UNCHANGED <<pc, req, loop_exit, uncaught>>

\* for line in sys.stdin: the next line arrives and is dispatched
ReadLine ==
    /\ pc["main"] = "read"
    /\ nread < MaxLines
    /\ nread + nevents < MaxInputs
    /\ nread' = nread + 1
    /\ \E line \in Lines : Dispatch(line)
    /\ UNCHANGED <<pending, ret, emit_lock, map_lock, msg_map, stop_event,
                   stdout, exit_status, msg, req_id, nmsg, submitted,
                   nevents, taken, dcount, rcount, outcome, channels>>

\* Control is back at the for statement, which asks sys.stdin for the next
\* line (the locals of the finished iteration are rebound before they are
\* read again: the model forgets them here)
NextLine ==
    /\ pc["main"] = "loop"
    /\ pc' = [pc EXCEPT !["main"] = "read"]
    /\ req' = NoRequest
    /\ outcome' = ""
    /\ dcount' = 0
    /\ pending' = [pending EXCEPT !["main"] = NoResponse]
    /\ ret' = ""
    /\ UNCHANGED <<emit_lock, map_lock, msg_map, stop_event, stdout,
                   exit_status, msg, req_id, nmsg, submitted, nread, nevents, taken,
                   loop_exit, uncaught, rcount, channels>>

\* sys.stdin is at end of input: the for loop ends
EndOfInput ==
    /\ pc["main"] = "read"
    /\ pc' = [pc EXCEPT !["main"] = "finally"]
    /\ loop_exit' = "eof"
    /\ UNCHANGED <<pending, ret, emit_lock, map_lock, msg_map, stop_event,
                   stdout, exit_status, req, msg, req_id, nmsg,
                   submitted, nread, nevents, taken, uncaught, dcount, rcount,
                   outcome, channels>>

\* msg_id = kc.execute(code): the kernel client hands out a fresh message
\* id and the request is on its way to the kernel
Execute ==
    /\ pc["main"] = "execute"
    /\ nmsg' = nmsg + 1
    /\ submitted' = MapPut(submitted, nmsg + 1, req.id)
    /\ pc' = [pc EXCEPT !["main"] = "register_msg"]
    /\ UNCHANGED <<pending, ret, emit_lock, map_lock, msg_map, stop_event,
                   stdout, exit_status, req, msg, req_id, nread,
                   nevents, taken, loop_exit, uncaught, dcount, rcount, outcome,
                   channels>>

\* register_msg(msg_id, req_id): with _msg_map_lock (acquire)
RegisterAcquire ==
    /\ pc["main"] = "register_msg"
    /\ map_lock = "free"
    /\ map_lock' = "main"
    /\ pc' = [pc EXCEPT !["main"] = "register_msg_locked"]
    /\ UNCHANGED <<pending, ret, emit_lock, msg_map, stop_event, stdout,
                   exit_status, req, msg, req_id, nmsg, submitted,
                   nread, nevents, taken, loop_exit, uncaught, dcount, rcount,
                   outcome, channels>>

\* _msg_map[msg_id] = req_id, then the lock is released
RegisterStore ==
    /\ pc["main"] = "register_msg_locked"
    /\ msg_map' = MapPut(msg_map, nmsg, req.id)
    /\ map_lock' = "free"
    /\ pc' = [pc EXCEPT !["main"] = "loop"]
    /\ UNCHANGED <<pending, ret, emit_lock, stop_event, stdout, exit_status,
                   req, msg, req_id, nmsg, submitted, nread, nevents, taken,
                   loop_exit, uncaught, dcount, rcount, outcome,
                   channels>>

\* An interrupt handler that reports the failure without the request id.
InterruptKernelAnonymous ==
    /\ pc["main"] = "interrupt"
    /\ \/ /\ outcome' = "ok"
          /\ pc' = [pc EXCEPT !["main"] = "loop"]
          /\ UNCHANGED <<pending, ret>>
       \/ /\ outcome' = "failed"
          /\ CallEmit("main",
                      Response(None, "error", "InterruptError", NoData),
                      "loop")
    /\ UNCHANGED <<emit_lock, map_lock, msg_map, stop_event, stdout,
                   exit_status, req, msg, req_id, nmsg, submitted,
                   nread, nevents, taken, loop_exit, uncaught, dcount, rcount,
                   channels>>

\* km.interrupt_kernel(); on failure emit InterruptError
InterruptKernel ==
    /\ pc["main"] = "interrupt"
    /\ \/ /\ outcome' = "ok"
          /\ pc' = [pc EXCEPT !["main"] = "loop"]
          /\ UNCHANGED <<pending, ret>>
       \/ /\ outcome' = "failed"
          /\ CallEmit("main",
                      Response(req.id, "error", "InterruptError", NoData),
                      "loop")
    /\ UNCHANGED <<emit_lock, map_lock, msg_map, stop_event, stdout,
                   exit_status, req, msg, req_id, nmsg, submitted,
                   nread, nevents, taken, loop_exit, uncaught, dcount, rcount,
                   channels>>

\* A restart that also empties the table (the ids of the old kernel).
RestartKernelClearsTable ==
    /\ pc["main"] = "restart"
    /\ msg_map' = <<>>
    /\ \/ /\ pc' = [pc EXCEPT !["main"] = "restart_wait"]
          /\ UNCHANGED <<pending, ret, outcome>>
       \/ /\ outcome' = "failed"
          /\ CallEmit("main",
                      Response(req.id, "error", "RestartError", NoData),
                      "loop")
    /\ UNCHANGED <<emit_lock, map_lock, stop_event, stdout,
                   exit_status, req, msg, req_id, nmsg, submitted,
                   nread, nevents, taken, loop_exit, uncaught, dcount, rcount,
                   channels>>

\* km.restart_kernel(now=True); on failure emit RestartError
RestartKernel ==
    /\ pc["main"] = "restart"
    /\ \/ /\ pc' = [pc EXCEPT !["main"] = "restart_wait"]
          /\ UNCHANGED <<pending, ret, outcome>>
       \/ /\ outcome' = "failed"
          /\ CallEmit("main",
                      Response(req.id, "error", "RestartError", NoData),
                      "loop")
    /\ UNCHANGED <<emit_lock, map_lock, msg_map, stop_event, stdout,
                   exit_status, req, msg, req_id, nmsg, submitted,
                   nread, nevents, taken, loop_exit, uncaught, dcount, rcount,
                   channels>>

\* A restart handler whose except clause swallows the readiness failure.
RestartWaitSilentFailure ==
    /\ pc["main"] = "restart_wait"
    /\ \/ /\ outcome' = "ok"
          /\ CallEmit("main",
                      Response(req.id, "status", "restarted", NoData),
                      "loop")
       \/ /\ outcome' = "failed"
          /\ pc' = [pc EXCEPT !["main"] = "loop"]
          /\ UNCHANGED <<pending, ret>>
    /\ UNCHANGED <<emit_lock, map_lock, msg_map, stop_event, stdout,
                   exit_status, req, msg, req_id, nmsg, submitted,
                   nread, nevents, taken, loop_exit, uncaught, dcount, rcount,
                   channels>>

\* kc.wait_for_ready(timeout=30) returns or raises; the response of the
\* restart request is emitted
RestartWait ==
    /\ pc["main"] = "restart_wait"
    /\ \/ /\ outcome' = "ok"
          /\ CallEmit("main",
                      Response(req.id, "status", "restarted", NoData),
                      "loop")
       \/ /\ outcome' = "failed"
          /\ CallEmit("main",
                      Response(req.id, "error", "RestartError", NoData),
                      "loop")
    /\ UNCHANGED <<emit_lock, map_lock, msg_map, stop_event, stdout,
                   exit_status, req, msg, req_id, nmsg, submitted,
                   nread, nevents, taken, loop_exit, uncaught, dcount, rcount,
                   channels>>

\* Positions of the dispatcher where a KeyboardInterrupt is raised: the
\* blocking calls and the statements between them.  Raised while a with
\* block holds a lock, it has the effect of one raised just before the
\* block (nothing stored or written yet) or just after it.
Interruptible == {"read", "loop", "execute", "register_msg", "interrupt",
                  "restart", "restart_wait", "emit"}

\* KeyboardInterrupt in the main thread while the loop runs: control goes
\* to except (EOFError, KeyboardInterrupt): pass and on to finally
KeyboardInterrupt ==
    /\ pc["main"] \in Interruptible
    /\ pc["relay"] # "unstarted"
    /\ loop_exit = ""
    /\ loop_exit' = "interrupt"
    /\ pc' = [pc EXCEPT !["main"] = "finally"]
    /\ UNCHANGED <<pending, ret, emit_lock, map_lock, msg_map, stop_event, stdout, exit_status,
                   req, msg, req_id, nmsg, submitted, nread, nevents, taken,
                   uncaught, dcount, rcount, outcome, channels>>

Dispatcher ==
    \/ ReadLine
    \/ NextLine
    \/ EndOfInput
    \/ Execute
    \/ RegisterAcquire
    \/ RegisterStore
    \/ InterruptKernel
    \/ RestartKernel
    \/ RestartWait
    \/ KeyboardInterrupt

\* ------------------------------------------------------------ teardown
\* finally: stop_event.set()   (the locals of the loop are not read in
\* the finally block: the model forgets them here)
SetStopEvent ==
    /\ pc["main"] = "finally"
    /\ stop_event' = TRUE
    /\ pc' = [pc EXCEPT !["main"] = "stop_channels"]
    /\ req' = NoRequest
    /\ outcome' = ""
    /\ dcount' = 0
    /\ pending' = [pending EXCEPT !["main"] = NoResponse]
    /\ ret' = ""
    /\ UNCHANGED <<emit_lock, map_lock, msg_map, stdout, exit_status, msg,
                   req_id, nmsg, submitted, nread, nevents, taken, loop_exit,
                   uncaught, rcount, channels>>

\* A teardown without the except clause: the failure propagates.
StopChannelsPropagates ==
    /\ pc["main"] = "stop_channels"
    /\ \/ /\ channels' = FALSE
          /\ pc' = [pc EXCEPT !["main"] = "shutdown_kernel"]
          /\ UNCHANGED <<uncaught, outcome>>
       \/ /\ pc' = [pc EXCEPT !["main"] = "return"]
          /\ uncaught' = TRUE
          /\ outcome' = "failed"
          /\ UNCHANGED channels
    /\ UNCHANGED <<pending, ret, emit_lock, map_lock, msg_map, stop_event,
                   stdout, exit_status, req, msg, req_id, nmsg,
                   submitted, nread, nevents, taken, loop_exit, dcount, rcount>>

\* kc.stop_channels(); an exception skips km.shutdown_kernel and is
\* swallowed by except Exception: pass
StopChannels ==
    /\ pc["main"] = "stop_channels"
    /\ \/ /\ channels' = FALSE
          /\ pc' = [pc EXCEPT !["main"] = "shutdown_kernel"]
          /\ UNCHANGED outcome
       \/ /\ pc' = [pc EXCEPT !["main"] = "return"]
          /\ outcome' = "failed"
          /\ UNCHANGED channels
    /\ UNCHANGED <<pending, ret, emit_lock, map_lock, msg_map, stop_event,
                   stdout, exit_status, req, msg, req_id, nmsg,
                   submitted, nread, nevents, taken, loop_exit, uncaught,
                   dcount, rcount>>

\* A teardown whose except clause reports the failure to the caller.
ShutdownKernelReports ==
    /\ pc["main"] = "shutdown_kernel"
    /\ \/ /\ outcome' = "ok"
          /\ pc' = [pc EXCEPT !["main"] = "return"]
          /\ UNCHANGED <<pending, ret>>
       \/ /\ outcome' = "failed"
          /\ CallEmit("main",
                      Response(None, "error", "ShutdownError", NoData),
                      "return")
    /\ UNCHANGED <<emit_lock, map_lock, msg_map, stop_event, stdout,
                   exit_status, req, msg, req_id, nmsg, submitted, nread,
                   nevents, taken, loop_exit, uncaught, dcount, rcount, channels>>

\* km.shutdown_kernel(now=True) returns or raises; an exception is
\* swallowed by except Exception: pass
ShutdownKernel ==
    /\ pc["main"] = "shutdown_kernel"
    /\ outcome' \in {"ok", "failed"}
    /\ pc' = [pc EXCEPT !["main"] = "return"]
    /\ UNCHANGED <<pending, ret, emit_lock, map_lock, msg_map, stop_event,
                   stdout, exit_status, req, msg, req_id, nmsg,
                   submitted, nread, nevents, taken, loop_exit, uncaught,
                   dcount, rcount, channels>>

\* main() returns (exit status 0) or the pending exception propagates
\* out of it (traceback, exit status 1).  The process exits: the daemon
\* relay thread is killed wherever it is, and its locals and the locks go
\* with the process.
Return ==
    /\ pc["main"] = "return"
    /\ pc' = [pc EXCEPT !["main"] = "stopped",
                        !["relay"] = IF pc["relay"] \in {"done", "dead"}
                                     THEN pc["relay"] ELSE "killed"]
    /\ exit_status' = IF uncaught THEN 1 ELSE 0
    /\ pending' = [t \in Threads |-> NoResponse]
    /\ msg' = NoEvent
    /\ req_id' = None
    /\ rcount' = 0
    /\ emit_lock' = "free"
    /\ map_lock' = "free"
    /\ UNCHANGED <<ret, msg_map, stop_event, stdout, req, nmsg, submitted,
                   nread, nevents, taken, loop_exit, uncaught, dcount, outcome,
                   channels>>

Teardown ==
    \/ SetStopEvent
    \/ StopChannels
    \/ ShutdownKernel
    \/ Return

\* --------------------------------------------------------- Event Relay
\* while not stop_event.is_set():   (the locals of the previous cycle are
\* rebound before they are read again: the model forgets them here)
RelayCheck ==
    /\ Running
    /\ pc["relay"] = "check"
    /\ pc' = [pc EXCEPT !["relay"] = IF stop_event THEN "done" ELSE "poll"]
    /\ msg' = NoEvent
    /\ req_id' = None
    /\ rcount' = 0
    /\ pending' = [pending EXCEPT !["relay"] = NoResponse]
    /\ UNCHANGED <<ret, emit_lock, map_lock, msg_map, stop_event, stdout,
                   exit_status, req, nmsg, submitted, nread, nevents, taken, loop_exit, uncaught, dcount, outcome, channels>>

\* The kinds of event the relay answers with a response.
Relayed(e) ==
    \/ e.kind \in {"stream", "execute_result", "display_data", "error"}
    \/ e.kind = "status" /\ e.state \in {"idle", "busy"}

\* msg_type and content of an event: what its response is built from,
\* next to the id the lookup returns.
Content(e) == [kind |-> e.kind, state |-> e.state, data |-> e.data]

\* The events whose handling gets as far as emit(): the relayed kinds,
\* unless flattening the payload raises.
Responds(e) ==
    /\ Relayed(e)
    /\ ~(e.kind \in {"execute_result", "display_data"}
          /\ FlattenRaises(e.data))

\* msg = kc.get_iopub_msg(timeout=0.5); except Exception: continue
\* The call returns the next event the kernel has published on IOPub (its
\* parent is absent or the id of a message the client has sent), or raises
\* (queue.Empty on timeout, an error of the channel).
RelayPoll ==
    /\ Running
    /\ pc["relay"] = "poll"
    /\ \/ /\ channels
          /\ nevents < MaxEvents
          /\ nread + nevents < MaxInputs
          /\ \E e \in EventsFor({NoParent} \cup 1..nmsg) :
                /\ msg' = e
                /\ taken' = IF Responds(e) THEN Append(taken, Content(e))
                                           ELSE taken
          /\ nevents' = nevents + 1
          /\ pc' = [pc EXCEPT !["relay"] = "get_req_id"]
       \/ /\ pc' = [pc EXCEPT !["relay"] = "check"]
          /\ UNCHANGED <<msg, nevents, taken>>
    /\ UNCHANGED <<pending, ret, emit_lock, map_lock, msg_map, stop_event,
                   stdout, exit_status, req, req_id, nmsg, submitted, nread,
                   loop_exit, uncaught, dcount, rcount, outcome,
                   channels>>

\* get_req_id(msg): parent_id falsy -> None, else with _msg_map_lock
RelayGetReqId ==
    /\ Running
    /\ pc["relay"] = "get_req_id"
    /\ IF msg.parent = NoParent
       THEN /\ req_id' = None
            /\ pc' = [pc EXCEPT !["relay"] = "classify"]
            /\ UNCHANGED map_lock
       ELSE /\ map_lock = "free"
            /\ map_lock' = "relay"
            /\ pc' = [pc EXCEPT !["relay"] = "get_req_id_locked"]
            /\ UNCHANGED req_id
    /\ UNCHANGED <<pending, ret, emit_lock, msg_map, stop_event, stdout,
                   exit_status, req, msg, nmsg, submitted, nread,
                   nevents, taken, loop_exit, uncaught, dcount, rcount,
                   outcome, channels>>

\* A lookup that answers with the id of the request the dispatcher has in
\* hand instead of the table's entry.
RelayLookupFromRequest ==
    /\ Running
    /\ pc["relay"] = "get_req_id_locked"
    /\ req_id' = req.id
    /\ map_lock' = "free"
    /\ pc' = [pc EXCEPT !["relay"] = "classify"]
    /\ UNCHANGED <<pending, ret, emit_lock, msg_map, stop_event, stdout,
                   exit_status, req, msg, nmsg, submitted, nread,
                   nevents, taken, loop_exit, uncaught, dcount, rcount,
                   outcome, channels>>

\* A lookup that keeps _msg_map_lock when it returns.
RelayLookupKeepsLock ==
    /\ Running
    /\ pc["relay"] = "get_req_id_locked"
    /\ req_id' = MapGet(msg_map, msg.parent)
    /\ pc' = [pc EXCEPT !["relay"] = "classify"]
    /\ UNCHANGED <<pending, ret, emit_lock, map_lock, msg_map, stop_event,
                   stdout, exit_status, req, msg, nmsg, submitted, nread,
                   nevents, taken, loop_exit, uncaught, dcount, rcount,
                   outcome, channels>>

\* return _msg_map.get(parent_id), then the lock is released
RelayLookup ==
    /\ Running
    /\ pc["relay"] = "get_req_id_locked"
    /\ req_id' = MapGet(msg_map, msg.parent)
    /\ map_lock' = "free"
    /\ pc' = [pc EXCEPT !["relay"] = "classify"]
    /\ UNCHANGED <<pending, ret, emit_lock, msg_map, stop_event, stdout,
                   exit_status, req, msg, nmsg, submitted, nread,
                   nevents, taken, loop_exit, uncaught, dcount, rcount,
                   outcome, channels>>

\* The response built for a relayed event.
RelayResponse(e, id) ==
    IF e.kind = "stream" THEN Response(id, "stream", "stdout", NoData)
    ELSE IF e.kind \in {"execute_result", "display_data"}
         THEN Response(id, e.kind, "", Flatten(e.data))
    ELSE IF e.kind = "error" THEN Response(id, "error", "Error", NoData)
    ELSE Response(id, "status", e.state, NoData)

\* the if/elif chain on msg_type; a TypeError raised by "".join(v) is
\* caught nowhere and ends the thread
RelayClassify ==
    /\ Running
    /\ pc["relay"] = "classify"
    /\ IF ~Relayed(msg)
       THEN /\ pc' = [pc EXCEPT !["relay"] = "check"]
            /\ UNCHANGED <<pending, ret>>
       ELSE IF msg.kind \in {"execute_result", "display_data"}
               /\ FlattenRaises(msg.data)
       THEN /\ pc' = [pc EXCEPT !["relay"] = "raised"]
            /\ UNCHANGED <<pending, ret>>
       ELSE CallEmit("relay", RelayResponse(msg, req_id), "")
    /\ UNCHANGED <<emit_lock, map_lock, msg_map, stop_event, stdout,
                   exit_status, req, msg, req_id, nmsg, submitted,
                   nread, nevents, taken, loop_exit, uncaught, dcount, rcount,
                   outcome, channels>>

\* The exception propagates out of iopub_listener: the thread ends
RelayDies ==
    /\ Running
    /\ pc["relay"] = "raised"
    /\ pc' = [pc EXCEPT !["relay"] = "dead"]
    /\ msg' = NoEvent
    /\ req_id' = None
    /\ UNCHANGED <<pending, ret, emit_lock, map_lock, msg_map, stop_event,
                   stdout, exit_status, req, nmsg, submitted, nread, nevents, taken,
                   loop_exit, uncaught, dcount, rcount, outcome,
                   channels>>

Relay ==
    \/ RelayCheck
    \/ RelayPoll
    \/ RelayGetReqId
    \/ RelayLookup
    \/ RelayClassify
    \/ RelayDies

\* ------------------------------------------------------ specification
Main == Startup \/ Dispatcher \/ Teardown \/ Emit("main")

Next == Main \/ Relay \/ Emit("relay")

Spec == Init /\ [][Next]_vars

\* The main thread keeps running once it is in the finally block:
\* stop_event.set(), kc.stop_channels() and km.shutdown_kernel(now=True)
\* each return or raise in bounded time.
FairSpec == Spec /\ WF_vars(Teardown)

\* ------------------------------------------------------------ helpers
\* The responses written to stdout as whole lines, in order.
Emitted == SelectSeq(stdout, LAMBDA c : c.part = "nl")

\* The whole lines written by thread t.
EmittedBy(t) == SelectSeq(stdout, LAMBDA c : c.part = "nl" /\ c.w = t)

\* Thread t is inside the write-and-flush section of emit().
InEmit(t) == pc[t] \in {"emit_print", "emit_end", "emit_release"}

\* Thread t is somewhere in emit(), the wait for the lock included.
Emitting(t) == pc[t] = "emit" \/ InEmit(t)

\* main() is in its finally block or past it.
TeardownPcs == {"finally", "stop_channels", "shutdown_kernel", "return",
                "stopped"}

\* The last whole line the dispatcher wrote is the response obj.
LastMainLineIs(obj) ==
    /\ EmittedBy("main") # <<>>
    /\ EmittedBy("main")[Len(EmittedBy("main"))].obj = obj

\* -------------------------------------------------------------- claims

\* C1: every response the relay emits for an event whose parent key is the
\* message id the kernel client returned for an execute request carries
\* the id of that request.
C1_EventCarriesRequestId ==
    (Emitting("relay") /\ msg.parent \in DOMAIN submitted)
        => pending["relay"].id = submitted[msg.parent]

\* C2: a line that is blank, not JSON, JSON of any shape, or an object with
\* a missing or unrecognized action (a line read that neither dispatches an
\* action nor is a shutdown request) leaves the dispatcher reading: no
\* response, no kernel operation, no end of the loop.
C2_MalformedLineIgnored ==
    [][ ( /\ pc["main"] = "read"
          /\ nread' = nread + 1
          /\ pc'["main"] \notin {"execute", "interrupt", "restart"}
          /\ req'.action # "shutdown" )
        => ( /\ pc'["main"] = "read"
             /\ loop_exit' = ""
             /\ ~uncaught'
             /\ stdout' = stdout
             /\ nmsg' = nmsg
             /\ msg_map' = msg_map ) ]_vars

\* C3: at most one thread is inside emit's write-and-flush section, and in
\* the outbound stream the text of every line is directly followed by its
\* own line end (or is the last thing written so far).
C3_LineIntegrity ==
    /\ ~(InEmit("main") /\ InEmit("relay"))
    /\ \A t \in Threads : InEmit(t) <=> emit_lock = t
    /\ \A i \in 1..Len(stdout) :
          /\ stdout[i].part = "text" =>
                \/ i = Len(stdout)
                \/ stdout[i + 1] = Chunk(stdout[i].w, stdout[i].obj, "nl")
          /\ stdout[i].part = "nl" =>
                /\ i > 1
                /\ stdout[i - 1] = Chunk(stdout[i].w, stdout[i].obj, "text")

\* C3 witness: the relay has written the text of a line but not yet its
\* end, and the dispatcher is waiting in emit() for the lock.
C3_Witness ==
    /\ pc["relay"] = "emit_end"
    /\ pc["main"] = "emit"
    /\ ret = "loop"

\* C4: once the loop has ended by shutdown or end of input and the
\* cancellation flag is set, nothing more is written to the outbound stream
\* and the relay takes no further event.
C4_SilentAfterTeardown ==
    [][ (stop_event /\ loop_exit \in {"shutdown", "eof"})
           => (stdout' = stdout /\ nevents' = nevents) ]_vars

\* C5: when the dispatcher is back at the for statement after a restart
\* request it has written exactly one response, restarted on success and
\* RestartError otherwise, with the id of the request; while it waits for
\* readiness it holds no lock and every step of a running relay is enabled.
C5_RestartAnswered ==
    /\ (pc["main"] = "loop" /\ req.action = "restart") =>
          /\ dcount = 1
          /\ outcome \in {"ok", "failed"}
          /\ LastMainLineIs(
                IF outcome = "ok"
                THEN Response(req.id, "status", "restarted", NoData)
                ELSE Response(req.id, "error", "RestartError", NoData))
    /\ req.action = "restart" => dcount <= 1
    /\ pc["main"] = "restart_wait" =>
          /\ emit_lock # "main"
          /\ map_lock # "main"
          /\ pc["relay"] \notin {"unstarted", "done", "dead"}
                => ENABLED (Relay \/ Emit("relay"))

\* C5 witness: the dispatcher is back at the for statement after a
\* successful restart of request r1, and the relay has written a line.
C5_Witness ==
    /\ pc["main"] = "loop"
    /\ req = Request("r1", "restart")
    /\ outcome = "ok"
    /\ EmittedBy("relay") # <<>>

\* C6: a process that stops before the relay was started (a startup step
\* failed) has written exactly one response, an error, and no ready, and
\* its exit status is not 0.
C6_StartupFailureReported ==
    (pc["main"] = "stopped" /\ pc["relay"] = "unstarted") =>
        /\ Len(Emitted) = 1
        /\ Emitted[1].obj.type = "error"
        /\ exit_status # 0

\* C7: when the dispatcher is back at the for statement after an interrupt
\* request, it has written exactly one response {id, error, InterruptError}
\* if the interruption failed, and none if it succeeded.
C7_InterruptAnswered ==
    (pc["main"] = "loop" /\ req.action = "interrupt") =>
        /\ outcome \in {"ok", "failed"}
        /\ outcome = "failed" =>
              /\ dcount = 1
              /\ LastMainLineIs(
                    Response(req.id, "error", "InterruptError", NoData))
        /\ outcome = "ok" => dcount = 0

\* C7 witness: the interruption of request r1 failed and the dispatcher is
\* back at the for statement.
C7_Witness ==
    /\ pc["main"] = "loop"
    /\ req = Request("r1", "interrupt")
    /\ outcome = "failed"

\* C8: whenever the dispatcher loop has ended by shutdown, end of input or
\* an external interrupt, the process eventually stops with exit status 0.
C8_GracefulExit ==
    (loop_exit \in {"shutdown", "eof", "interrupt"})
        ~> (pc["main"] = "stopped" /\ exit_status = 0)

\* C8 witness: the process has stopped with status 0 after an external
\* interrupt, although stopping the channels failed.
C8_Witness ==
    /\ pc["main"] = "stopped"
    /\ loop_exit = "interrupt"
    /\ channels
    /\ exit_status = 0

\* C9: when the relay is done with an event it took, it has written exactly
\* one response if the event is a stream, execute_result, display_data,
\* error or a busy/idle status, and none otherwise; a response it writes
\* has the type of the event.
C9_OneResponsePerEvent ==
    /\ rcount <= 1
    /\ Emitting("relay") => pending["relay"].type = msg.kind
    /\ (pc["relay"] \in {"check", "raised"} /\ msg # NoEvent)
          => rcount = IF Relayed(msg) THEN 1 ELSE 0

\* C10: reading a shutdown request ends the loop without a response, and
\* once the loop has ended by shutdown no line is read, no message is sent
\* to the kernel, no correlation entry is made, the dispatcher writes
\* nothing, and main() is in its finally block or past it.
C10_ShutdownStopsReading ==
    [][ /\ req'.action = "shutdown" =>
              /\ loop_exit' = "shutdown"
              /\ pc'["main"] = "finally"
        /\ loop_exit = "shutdown" =>
              /\ nread' = nread
              /\ nmsg' = nmsg
              /\ msg_map' = msg_map
              /\ EmittedBy("main")' = EmittedBy("main")
              /\ ~Emitting("main")'
              /\ pc'["main"] \in TeardownPcs ]_vars

\* C10 witness: the process has stopped after a shutdown request although
\* the inbound stream could have supplied another line.
C10_Witness ==
    /\ loop_exit = "shutdown"
    /\ nread < MaxLines
    /\ pc["main"] = "stopped"

\* The request ids stored in the Correlation Table: the non-null values a
\* lookup can return.
Registered == { msg_map[k] : k \in DOMAIN msg_map }

\* C11 (as claimed): every response on the outbound stream other than ready
\* and the startup error has an id that is null or a value returned by a
\* Correlation Table lookup (ready and the startup errors carry no id, so
\* they satisfy this too).
C11_IdOnlyFromLookup ==
    \A i \in 1..Len(Emitted) :
        Emitted[i].obj.id # None => Emitted[i].obj.id \in Registered

\* C11 (amended): a response of the relay has the id its lookup returned (a
\* value of the table, or null); a response of the dispatcher has the id of
\* the request it is dispatching; ready and the startup errors have none.
C11_IdFromLookupOrRequest ==
    /\ \A i \in 1..Len(stdout) :
          /\ stdout[i].w = "relay" =>
                stdout[i].obj.id \in Registered \cup {None}
          /\ (stdout[i].w = "main" /\ stdout[i].obj.id # None) =>
                /\ stdout[i].obj.type \in {"status", "error"}
                /\ stdout[i].obj.info \in
                      {"restarted", "RestartError", "InterruptError"}
    /\ pc["relay"] \in {"classify", "raised"} \/ Emitting("relay") =>
          /\ req_id \in {None, MapGet(msg_map, msg.parent)}
          /\ msg.parent = NoParent => req_id = None
    /\ Emitting("relay") => pending["relay"].id = req_id
    /\ Emitting("main") =>
          pending["main"].id = IF pc["relay"] = "unstarted" THEN None
                               ELSE req.id

\* C11 witness: the relay has written a response with the id its lookup
\* returned, and the dispatcher is writing the answer to a restart request
\* with that request's id.
C11_Witness ==
    /\ \E i \in 1..Len(Emitted) :
          Emitted[i].w = "relay" /\ Emitted[i].obj.id = "r1"
    /\ pc["main"] = "emit_end"
    /\ req = Request("r1", "restart")
    /\ pending["main"].id = "r1"

\* C12: the payload of an execute_result or display_data response is the
\* flattening of the event's payload: a list of text fragments becomes their
\* concatenation in order (a, b, c gives abc), a single string stays as it
\* is, and flattening the flattened payload again changes nothing.
C12_FlattenConcatenates ==
    /\ (Emitting("relay") /\ msg.kind \in {"execute_result", "display_data"})
          => /\ msg.data.tag = "list" =>
                   /\ pending["relay"].data.tag = "str"
                   /\ pending["relay"].data.s = Join(msg.data.items)
             /\ msg.data = List(<<Str("a"), Str("b"), Str("c")>>) =>
                   pending["relay"].data = Str("abc")
             /\ msg.data.tag = "str" => pending["relay"].data = msg.data
             /\ Flatten(pending["relay"].data) = pending["relay"].data
    /\ \A i \in 1..Len(Emitted) :
          Emitted[i].obj.type \in {"execute_result", "display_data"} =>
              /\ Emitted[i].obj.data.tag = "str"
              /\ Flatten(Emitted[i].obj.data) = Emitted[i].obj.data

\* C12 witness: the relay has written the response for a display_data event
\* whose payload was the fragments a, b, c.
C12_Witness ==
    /\ pc["relay"] = "emit_release"
    /\ msg.kind = "display_data"
    /\ msg.data = List(<<Str("a"), Str("b"), Str("c")>>)
    /\ Emitted[Len(Emitted)].obj.data = Str("abc")

\* C13: submitting the code and registering (kernel_msg_id -> request_id)
\* are one step for the relay: the relay never performs the lookup of a
\* parent key that kc.execute has returned while the table has no entry for
\* that key.
C13_SameStepRegistration ==
    ~ \E k \in DOMAIN submitted :
          /\ k \notin DOMAIN msg_map
          /\ pc["relay"] = "get_req_id_locked"
          /\ msg.parent = k

\* C14: a poll that yields no event (timeout or read error) writes nothing
\* and returns to the flag check, and the relay loop ends only by observing
\* the cancellation flag set at the top of a cycle: no failure while an
\* event is classified, flattened or written ends it.
C14_RelayEndsOnlyOnFlag ==
    [][ /\ ( /\ pc["relay"] = "poll"
              /\ pc'["relay"] \notin {"poll", "killed"}
              /\ nevents' = nevents )
            => (pc'["relay"] = "check" /\ stdout' = stdout)
        /\ ( /\ pc["relay"] \notin {"unstarted", "done", "dead"}
              /\ pc'["relay"] \in {"done", "dead"} )
            => (pc["relay"] = "check" /\ stop_event) ]_vars

\* C15: once the loop has ended by shutdown, end of input or an external
\* interrupt, a teardown step that fails is swallowed: from the first
\* teardown step on the dispatcher writes no response, no exception is left
\* propagating, and the process stops with exit status 0.
C15_TeardownErrorsSwallowed ==
    [][ ( /\ pc["main"] \in {"stop_channels", "shutdown_kernel", "return"}
          /\ loop_exit \in {"shutdown", "eof", "interrupt"} )
        => ( /\ EmittedBy("main")' = EmittedBy("main")
             /\ ~Emitting("main")'
             /\ pc'["main"] \in TeardownPcs
             /\ ~uncaught'
             /\ pc'["main"] = "stopped" => exit_status' = 0 ) ]_vars

\* C15 witness: after a shutdown request, stopping the channels succeeded,
\* shutting the kernel down failed, and the process has stopped with exit
\* status 0.
C15_Witness ==
    /\ pc["main"] = "stopped"
    /\ loop_exit = "shutdown"
    /\ ~channels
    /\ outcome = "failed"
    /\ exit_status = 0

\* C16: on every path out of the dispatcher loop the cancellation flag is
\* set before any teardown step, and then stopping the channels and
\* shutting down the kernel are both attempted: main() gets to its end only
\* from the kernel shutdown, also when stopping the channels failed.
C16_BothTeardownStepsAttempted ==
    [][ /\ pc["main"] = "finally" =>
              pc'["main"] \in {"finally", "stop_channels"}
        /\ pc'["main"] \in {"stop_channels", "shutdown_kernel", "return"} =>
              stop_event'
        /\ pc["main"] = "stop_channels" =>
              pc'["main"] \in {"stop_channels", "shutdown_kernel"}
        /\ (pc'["main"] = "return" /\ pc["main"] # "return") =>
              pc["main"] = "shutdown_kernel" ]_vars

\* C17: the Correlation Table changes only in the registration step of an
\* execute request, which puts exactly the entry (returned msg id -> id of
\* that request); every other step (lines of any other kind, interrupt,
\* restart, shutdown, teardown, every relay step) leaves it as it is, so no
\* key is ever lost and each key resolves to the id of the request that was
\* last registered for it.
C17_TableFrame ==
    [][ /\ msg_map' # msg_map =>
              /\ pc["main"] = "register_msg_locked"
              /\ req.action = "execute"
              /\ msg_map' = MapPut(msg_map, nmsg, req.id)
              /\ UNCHANGED <<msg, req_id, pending, stdout>>
        /\ DOMAIN msg_map \subseteq DOMAIN msg_map'
        /\ \A k \in DOMAIN msg_map' :
              /\ k \in DOMAIN submitted'
              /\ msg_map'[k] = submitted'[k]
        /\ ( \/ pc["main"] \in {"read", "interrupt", "restart",
                                 "restart_wait"} \cup TeardownPcs
              \/ pc'["relay"] # pc["relay"] )
            => msg_map' = msg_map ]_vars

\* C17 witness: an execute request was registered, a later restart request
\* has been carried out, and the entry is still in the table.
C17_Witness ==
    /\ pc["main"] = "loop"
    /\ req.action = "restart"
    /\ outcome = "ok"
    /\ DOMAIN msg_map # {}

\* Thread t is blocked at the entry of a with block, waiting for a lock.
WaitsForEmitLock(t) == pc[t] = "emit"
WaitsForMapLock(t) ==
    \/ t = "main" /\ pc[t] = "register_msg"
    \/ t = "relay" /\ pc[t] = "get_req_id" /\ msg.parent # NoParent

\* C18: no thread holds _msg_map_lock and _emit_lock together, a thread
\* that asks for a lock holds none, the table lock is held only inside
\* register_msg and get_req_id, and a thread waiting for a lock is never
\* waiting on a thread that itself waits for a lock.
C18_LocksNeverNested ==
    /\ \A t \in Threads :
          /\ ~(emit_lock = t /\ map_lock = t)
          /\ (WaitsForEmitLock(t) \/ WaitsForMapLock(t)) =>
                (emit_lock # t /\ map_lock # t)
          /\ emit_lock = t => InEmit(t)
    /\ map_lock = "main" <=> pc["main"] = "register_msg_locked"
    /\ map_lock = "relay" <=> pc["relay"] = "get_req_id_locked"
    /\ \A t, u \in Threads :
          ( \/ WaitsForEmitLock(t) /\ emit_lock = u
            \/ WaitsForMapLock(t) /\ map_lock = u )
          => ~(WaitsForEmitLock(u) \/ WaitsForMapLock(u))

\* C18 witness: the relay holds the table lock inside get_req_id while the
\* dispatcher holds the writer lock inside emit.
C18_Witness ==
    /\ map_lock = "relay"
    /\ emit_lock = "main"
    /\ pc["main"] = "emit_end"
    /\ ret = "loop"

\* C19: ready is written at most once and only as the first line of the
\* outbound stream; once the relay thread has been started or a line has
\* been read, the first line of the stream is ready.
C19_ReadyFirst ==
    /\ \A i \in 1..Len(Emitted) : Emitted[i].obj.type = "ready" => i = 1
    /\ \A i \in 1..Len(stdout) :
          stdout[i].obj.type = "ready" => (i <= 2 /\ stdout[i].w = "main")
    /\ (pc["relay"] # "unstarted" \/ nread > 0 \/ nevents > 0) =>
          /\ Len(Emitted) >= 1
          /\ Emitted[1].obj = Response(None, "ready", "python", NoData)
    /\ (pc["main"] = "emit" /\ pending["main"].type = "ready") =>
          stdout = <<>>

\* C19 witness: the stream holds ready, then a response of the relay, then
\* a response of the dispatcher.
C19_Witness ==
    /\ Len(Emitted) = 3
    /\ Emitted[1].obj.type = "ready"
    /\ Emitted[2].w = "relay"
    /\ Emitted[3].w = "main"

\* The response for an event of content c, whatever id the lookup gave it.
AnswersEvent(obj, c) == obj = RelayResponse(c, obj.id)

\* C20: the relay writes its responses in the order in which it took the
\* events: the k-th line of the relay on the outbound stream is the
\* response to the k-th event it took among those that produce a response,
\* whatever the dispatcher has written in between; at most the last event
\* taken is still without its line.
C20_RelayOrder ==
    /\ Len(EmittedBy("relay")) <= Len(taken)
    /\ Len(taken) <= Len(EmittedBy("relay")) + 1
    /\ \A k \in 1..Len(EmittedBy("relay")) :
          AnswersEvent(EmittedBy("relay")[k].obj, taken[k])
    /\ \A i, j \in 1..Len(Emitted) :
          (Emitted[i].w = "relay" /\ Emitted[j].w = "relay" /\ i < j) =>
              \E k, l \in 1..Len(taken) :
                  /\ k < l
                  /\ AnswersEvent(Emitted[i].obj, taken[k])
                  /\ AnswersEvent(Emitted[j].obj, taken[l])

\* C20 witness: the relay took a stream event and then an error event; the
\* stream holds the stream response, then a response of the dispatcher,
\* then the error response.
C20_Witness ==
    /\ Len(taken) = 2
    /\ taken[1].kind = "stream"
    /\ taken[2].kind = "error"
    /\ Len(Emitted) = 4
    /\ Emitted[2].obj.type = "stream"
    /\ Emitted[3].w = "main"
    /\ Emitted[4].obj.type = "error"
    /\ Emitted[4].w = "relay"

====
